---- MODULE Spec2Model ----
(***************************************************************************)
(* Dendritic Gated Network (gated_linear_networks/colabs/                  *)
(* dendritic_gated_network.ipynb): the per-example inference/update steps  *)
(* step_square_loss and step_bernoulli, and the driver forward_pass.       *)
(*                                                                         *)
(* Numbers.  A float is modelled as a fixed-point number: the integer v    *)
(* stands for v / SCALE, every product and quotient is rounded to the      *)
(* nearest representable value (as every float operation is), and the      *)
(* IEEE special values inf, -inf and nan are kept, with their arithmetic.  *)
(* Overflow of finite values is not modelled: the inputs are small.        *)
(***************************************************************************)
EXTENDS Integers, Sequences, FiniteSets

\* ------------------------------------------------------------------ bounds
MaxCalls == 2        \* calls made on one network
InputDim == 1        \* input_dim, the dataset's feature count

\* ------------------------------------------------------------- arithmetic
SCALE == 100
PosInf == 1000000000
NegInf == -PosInf
NaN == 2000000000

One == SCALE
Zero == 0

IsNaN(a) == a = NaN
IsInf(a) == a = PosInf \/ a = NegInf
IsFinite(a) == ~IsNaN(a) /\ ~IsInf(a)

Abs(n) == IF n < 0 THEN -n ELSE n
Sign(n) == IF n < 0 THEN -1 ELSE IF n > 0 THEN 1 ELSE 0

\* n / d rounded to the nearest integer, ties away from zero (d > 0)
RoundDiv(n, d) == Sign(n) * ((2 * Abs(n) + d) \div (2 * d))

FNeg(a) == IF IsNaN(a) THEN NaN ELSE -a

FAdd(a, b) ==
  IF IsNaN(a) \/ IsNaN(b) THEN NaN
  ELSE IF IsInf(a) /\ IsInf(b) THEN (IF a = b THEN a ELSE NaN)
  ELSE IF IsInf(a) THEN a
  ELSE IF IsInf(b) THEN b
  ELSE a + b

FSub(a, b) == FAdd(a, FNeg(b))

FMul(a, b) ==
  IF IsNaN(a) \/ IsNaN(b) THEN NaN
  ELSE IF IsInf(a) \/ IsInf(b)
    THEN (IF a = 0 \/ b = 0 THEN NaN
          ELSE IF Sign(a) = Sign(b) THEN PosInf ELSE NegInf)
  ELSE RoundDiv(a * b, SCALE)

FDiv(a, b) ==
  IF IsNaN(a) \/ IsNaN(b) THEN NaN
  ELSE IF IsInf(a) THEN (IF IsInf(b) THEN NaN
                         ELSE IF b < 0 THEN FNeg(a) ELSE a)
  ELSE IF IsInf(b) THEN 0
  ELSE IF b = 0 THEN (IF a = 0 THEN NaN ELSE IF a > 0 THEN PosInf ELSE NegInf)
  ELSE Sign(b) * RoundDiv(a * SCALE, Abs(b))

\* comparisons: every comparison with nan is false
FLt(a, b) == ~IsNaN(a) /\ ~IsNaN(b) /\ a < b
FGt(a, b) == FLt(b, a)
FLe(a, b) == ~IsNaN(a) /\ ~IsNaN(b) /\ a <= b

\* a function over 1..n as a sequence
Vec(f) == <<>> \o f

RECURSIVE SumSeq(_)
SumSeq(s) == IF s = <<>> THEN Zero ELSE FAdd(Head(s), SumSeq(Tail(s)))

\* a.dot(b) of two vectors of the same length
Dot(a, b) == SumSeq(Vec([k \in 1..Len(a) |-> FMul(a[k], b[k])]))

\* np.heaviside(x, 0): 0 for x < 0, the second argument (0) at x = 0, 1 for x > 0
HeavisideTiesToOne(x) == IF IsNaN(x) THEN NaN ELSE IF FLt(x, Zero) THEN Zero ELSE One
Heaviside(x) == IF IsNaN(x) THEN NaN ELSE IF FGt(x, Zero) THEN One ELSE Zero

\* .astype(bool): every nonzero value, nan included, is True
AsBool(x) == x # Zero

\* a bool used in float arithmetic
BoolToFloat(g) == IF g THEN One ELSE Zero

\* --------------------------------------------------- sigmoid and its inverse
\* SigmoidSteps[j] is the least x (in units of 1/SCALE) at which
\* exp(-logaddexp(0, -x)), rounded to the nearest 1/SCALE, reaches j/SCALE.
\* Like the float sigmoid, the rounded sigmoid is exactly 0 for very negative
\* x and exactly 1 for very positive x.
SigmoidSteps ==
  << -529, -418, -366, -331, -305, -284, -266, -251, -237, -225,
     -214, -204, -194, -185, -177, -169, -162, -155, -148, -141,
     -135, -129, -123, -118, -112, -107, -102, -96, -91, -87,
     -82, -77, -73, -68, -64, -59, -55, -51, -46, -42,
     -38, -34, -30, -26, -22, -18, -14, -10, -6, -2,
     3, 7, 11, 15, 19, 23, 27, 31, 35, 39,
     43, 47, 52, 56, 60, 65, 69, 74, 78, 83,
     88, 92, 97, 103, 108, 113, 119, 124, 130, 136,
     142, 149, 156, 163, 170, 178, 186, 195, 205, 215,
     226, 238, 252, 267, 285, 306, 332, 367, 419, 530 >>

\* sigmoid(x) = np.exp(-np.logaddexp(0, -x))
sigmoid(x) ==
  IF IsNaN(x) THEN NaN
  ELSE IF x = PosInf THEN One
  ELSE IF x = NegInf THEN Zero
  ELSE Cardinality({j \in 1..Len(SigmoidSteps) : SigmoidSteps[j] <= x})

\* LogitTable[k] is log(p / (1 - p)) for p = k/SCALE, rounded to 1/SCALE
LogitTable ==
  << -460, -389, -348, -318, -294, -275, -259, -244, -231, -220,
     -209, -199, -190, -182, -173, -166, -159, -152, -145, -139,
     -132, -127, -121, -115, -110, -105, -99, -94, -90, -85,
     -80, -75, -71, -66, -62, -58, -53, -49, -45, -41,
     -36, -32, -28, -24, -20, -16, -12, -8, -4, 0,
     4, 8, 12, 16, 20, 24, 28, 32, 36, 41,
     45, 49, 53, 58, 62, 66, 71, 75, 80, 85,
     90, 94, 99, 105, 110, 115, 121, 127, 132, 139,
     145, 152, 159, 166, 173, 182, 190, 199, 209, 220,
     231, 244, 259, 275, 294, 318, 348, 389, 460 >>

\* inverse_sigmoid(x) = np.log(x / (1 - x)): x = 1 divides by zero and gives
\* inf, x = 0 takes log(0) and gives -inf, x outside [0, 1] takes the log of
\* a negative number and gives nan (numpy warns and goes on)
inverse_sigmoid(x) ==
  IF ~IsFinite(x) THEN NaN
  ELSE IF x = One THEN PosInf
  ELSE IF x = Zero THEN NegInf
  ELSE IF x < Zero \/ x > One THEN NaN
  ELSE LogitTable[x]

\* np.clip(x, lo, hi); nan stays nan
ClipNone(x, lo, hi) == x
Clip(x, lo, hi) ==
  IF IsNaN(x) THEN NaN
  ELSE IF FLt(x, lo) THEN lo
  ELSE IF FGt(x, hi) THEN hi
  ELSE x

\* ------------------------------------------------------------------ layers
\* A layer's tensor t[n][b][k]: neuron n, branch b, component k.
None == <<>>
Some(v) == <<v>>

\* side_info = np.hstack([hyperplane_bias_magnitude, inputs])
hyperplane_bias_magnitude == One
SideInfo(inputs) == <<hyperplane_bias_magnitude>> \o inputs

\* gate_values = np.heaviside(h.dot(side_info), 0).astype(bool)
GateValues(h, side_info) ==
  Vec([n \in 1..Len(h) |->
     Vec([b \in 1..Len(h[n]) |-> AsBool(Heaviside(Dot(h[n][b], side_info)))])])

\* gate_values.dot(w): a (neurons, branches) matrix times a
\* (neurons, branches, width) tensor sums over the last axis of the first and
\* the second-to-last axis of the second:
\*   GateDotW[i][j][m] = sum_b gate_values[i][b] * w[j][b][m]
GateDotW(gate_values, w) ==
  Vec([i \in 1..Len(gate_values) |->
     Vec([j \in 1..Len(w) |->
        Vec([m \in 1..Len(w[j][1]) |->
           SumSeq(Vec([b \in 1..Len(w[j]) |->
                     FMul(BoolToFloat(gate_values[i][b]), w[j][b][m])]))])])])

\* effective_weights = gate_values.dot(w).sum(axis=1)
EffectiveWeights(gate_values, w) ==
  LET gw == GateDotW(gate_values, w) IN
  Vec([i \in 1..Len(gw) |->
     Vec([m \in 1..Len(gw[i][1]) |->
        SumSeq(Vec([j \in 1..Len(gw[i]) |-> gw[i][j][m]]))])])

\* w -= learning_rate * gate_values[:, :, None] * grad[:, None]
UpdatedWeightsAllBranches(w, gate_values, grad, learning_rate) ==
  Vec([n \in 1..Len(w) |->
     Vec([b \in 1..Len(w[n]) |->
        Vec([k \in 1..Len(w[n][b]) |->
           FSub(w[n][b][k], FMul(learning_rate, grad[n][k]))])])])
UpdatedWeightsAscent(w, gate_values, grad, learning_rate) ==
  Vec([n \in 1..Len(w) |->
     Vec([b \in 1..Len(w[n]) |->
        Vec([k \in 1..Len(w[n][b]) |->
           FAdd(w[n][b][k],
                FMul(FMul(learning_rate, BoolToFloat(gate_values[n][b])),
                     grad[n][k]))])])])
UpdatedWeights(w, gate_values, grad, learning_rate) ==
  Vec([n \in 1..Len(w) |->
     Vec([b \in 1..Len(w[n]) |->
        Vec([k \in 1..Len(w[n][b]) |->
           FSub(w[n][b][k],
                FMul(FMul(learning_rate, BoolToFloat(gate_values[n][b])),
                     grad[n][k]))])])])

\* "if update:" guards the in-place update of w
ApplyUpdateAlways(update, w, w_updated) == w_updated
ApplyUpdate(update, w, w_updated) == IF update THEN w_updated ELSE w

\* One iteration of step_square_loss's loop over layers.  target is a number
\* here: it is read only when update is true.
SquareLossLayer(w, h, r_prev, side_info, learning_rate, target, update) ==
  LET r_in == <<One>> \o r_prev
      gate_values == GateValues(h, side_info)
      effective_weights == EffectiveWeights(gate_values, w)
      r_out == Vec([n \in 1..Len(w) |-> Dot(effective_weights[n], r_in)])
      grad == Vec([n \in 1..Len(w) |->
                 Vec([k \in 1..Len(r_in) |-> FMul(FSub(r_out[n], target), r_in[k])])])
  IN [r_in |-> r_in, h_in |-> r_in, gate_values |-> gate_values,
      effective_weights |-> effective_weights, r_out |-> r_out,
      w |-> ApplyUpdate(update, w,
                        UpdatedWeights(w, gate_values, grad, learning_rate))]

\* update_indicator = np.logical_and(r_out < 1 - epsilon, r_out > epsilon)
UpdateIndicatorClosed(r_out, epsilon) ==
  FLe(r_out, FSub(One, epsilon)) /\ FLe(epsilon, r_out)
UpdateIndicator(r_out, epsilon) ==
  FLt(r_out, FSub(One, epsilon)) /\ FGt(r_out, epsilon)

\* One iteration of step_bernoulli's loop over layers.
BernoulliLayer(w, h, r_prev, side_info, learning_rate, epsilon, target, update) ==
  LET r_in == <<sigmoid(One)>> \o r_prev
      h_in == Vec([k \in 1..Len(r_in) |-> inverse_sigmoid(r_in[k])])
      gate_values == GateValues(h, side_info)
      effective_weights == EffectiveWeights(gate_values, w)
      h_out == Vec([n \in 1..Len(w) |-> Dot(effective_weights[n], h_in)])
      r_out == Vec([n \in 1..Len(w) |->
                  Clip(sigmoid(h_out[n]), epsilon, FSub(One, epsilon))])
      grad == Vec([n \in 1..Len(w) |->
                 Vec([k \in 1..Len(h_in) |->
                    FMul(FMul(FSub(r_out[n], target), h_in[k]),
                         BoolToFloat(UpdateIndicator(r_out[n], epsilon)))])])
  IN [r_in |-> r_in, h_in |-> h_in, gate_values |-> gate_values,
      effective_weights |-> effective_weights, r_out |-> r_out,
      w |-> ApplyUpdate(update, w,
                        UpdatedWeights(w, gate_values, grad, learning_rate))]

\* --------------------------------------------------------------- the steps
\* The loop "for w, h in zip(weights, hyperplanes)", from layer l on: the
\* weights as updated in place, and what each layer computed.
RECURSIVE RunLayers(_, _, _, _, _, _, _, _, _, _, _)
\* the end of one iteration: the layer's w is written in place, and its
\* output is the next layer's input (r_in = r_out)
NextLayer(bernoulli, l, lay, ws, hs, side_info, learning_rate, epsilon, target, update, layers) ==
  RunLayers(bernoulli, l + 1, lay.r_out, [ws EXCEPT ![l] = lay.w], hs,
            side_info, learning_rate, epsilon, target, update,
            Append(layers, [r_in |-> lay.r_in, h_in |-> lay.h_in,
                            gate_values |-> lay.gate_values,
                            effective_weights |-> lay.effective_weights,
                            r_out |-> lay.r_out]))

RunLayers(bernoulli, l, r_prev, ws, hs, side_info, learning_rate, epsilon, target, update, layers) ==
  IF l > Len(ws) THEN [weights |-> ws, layers |-> layers]
  ELSE NextLayer(bernoulli, l,
                 IF bernoulli
                 THEN BernoulliLayer(ws[l], hs[l], r_prev, side_info,
                                     learning_rate, epsilon, target, update)
                 ELSE SquareLossLayer(ws[l], hs[l], r_prev, side_info,
                                      learning_rate, target, update),
                 ws, hs, side_info, learning_rate, epsilon, target, update,
                 layers)

\* the number a layer reads as target; a missing target is never read there
TargetValue(target) == IF target = None THEN Zero ELSE target[1]

Raised(ws, status, layers) ==
  [weights |-> ws, status |-> status, prediction |-> None, loss |-> None,
   layers |-> layers]

\* loss = (target - r_out)**2 / 2
SquareLoss(target, r_out) ==
  FDiv(FMul(FSub(target, r_out), FSub(target, r_out)), 2 * One)

\* loss = -(target * r_out + (1 - target) * (1 - r_out))
BernoulliLoss(target, r_out) ==
  FNeg(FAdd(FMul(target, r_out), FMul(FSub(One, target), FSub(One, r_out))))

\* The lines that end a step: r_out = r_out[0], the loss, the return.  An
\* empty r_out raises IndexError; a target of None raises TypeError in the
\* loss.
Finish(bernoulli, run, target) ==
  LET r_out == run.layers[Len(run.layers)].r_out IN
  IF Len(r_out) = 0 THEN Raised(run.weights, "IndexError", run.layers)
  ELSE IF target = None THEN Raised(run.weights, "TypeError", run.layers)
  ELSE [weights |-> run.weights, status |-> "ok",
        prediction |-> Some(r_out[1]),
        loss |-> Some(IF bernoulli THEN BernoulliLoss(target[1], r_out[1])
                      ELSE SquareLoss(target[1], r_out[1])),
        layers |-> run.layers]

\* step_square_loss(inputs, weights, hyperplanes, learning_rate=, target=,
\* update=).  With update and no target, the first layer's
\* "r_out[:, None] - target" raises TypeError before any weight is written.
step_square_loss(inputs, ws, hs, learning_rate, target, update) ==
  IF update /\ target = None THEN Raised(ws, "TypeError", <<>>)
  ELSE
    LET run == RunLayers(FALSE, 1, inputs, ws, hs, SideInfo(inputs),
                         learning_rate, Zero, TargetValue(target), update, <<>>)
    IN Finish(FALSE, run, target)

\* step_bernoulli(inputs, weights, hyperplanes, learning_rate=, epsilon=,
\* target=, update=)
step_bernoulli(inputs, ws, hs, learning_rate, epsilon, target, update) ==
  IF update /\ target = None THEN Raised(ws, "TypeError", <<>>)
  ELSE
    LET r_in == Vec([k \in 1..Len(inputs) |->
                   Clip(sigmoid(inputs[k]), epsilon, FSub(One, epsilon))])
        run == RunLayers(TRUE, 1, r_in, ws, hs, SideInfo(inputs),
                         learning_rate, epsilon, TargetValue(target), update,
                         <<>>)
    IN Finish(TRUE, run, target)

\* ------------------------------------------------------------ forward_pass
\* epsilon: float = 0.01
DefaultEpsilon == 1

\* one iteration of forward_pass's loop: step_fn returned r, or raised
PassStep(before, x_i, y_i, r) ==
  [weights |-> r.weights, status |-> r.status,
   losses |-> IF r.status = "ok" THEN Append(before.losses, r.loss[1])
              ELSE before.losses,
   outputs |-> IF r.status = "ok" THEN Append(before.outputs, r.prediction[1])
               ELSE before.outputs,
   call |-> [inputs |-> x_i, target |-> y_i, w_pre |-> before.weights,
             step |-> r]]

\* y, l = step_fn(x_i, weights, hyperplanes, target=y_i,
\*                learning_rate=learning_rate, update=update)
PassCall(bernoulli, before, x_i, y_i, hs, learning_rate, update) ==
  IF before.status # "ok" THEN before
  ELSE PassStep(before, x_i, y_i,
                IF bernoulli
                THEN step_bernoulli(x_i, before.weights, hs, learning_rate,
                                    DefaultEpsilon, y_i, update)
                ELSE step_square_loss(x_i, before.weights, hs, learning_rate,
                                      y_i, update))

\* forward_pass's loop "for x_i, y_i in zip(x, y)": after[i] is the pass
\* after i examples.  Each step_fn call sees the weights the calls before it
\* left; an exception in a call ends the pass.
PassLoop(bernoulli, data, ws, hs, learning_rate, update) ==
  LET after[i \in 0..Len(data)] ==
        IF i = 0
        THEN [weights |-> ws, status |-> "ok", losses |-> <<>>,
              outputs |-> <<>>, call |-> <<>>]
        ELSE PassCall(bernoulli, after[i - 1], data[i].x, Some(data[i].y),
                      hs, learning_rate, update)
  IN after[Len(data)]

\* np.mean(losses)
Mean(losses) == FDiv(SumSeq(losses), Len(losses) * One)

\* ---------------------------------------------------------------- the state
VARIABLES
  do_classification,  \* which step function the network is run with
  weights,            \* weights_: one tensor per layer, updated in place
  hyperplanes,        \* hyperplanes_: one tensor per layer
  last,               \* the last step_square_loss / step_bernoulli call
  fp,                 \* the last forward_pass call
  ncalls              \* calls made so far

vars == <<do_classification, weights, hyperplanes, last, fp, ncalls>>

\* num_neurons and num_branches: the layer stacks the model is run on
Architectures ==
  { [num_neurons |-> <<1>>, num_branches |-> 1],
    [num_neurons |-> <<2, 1>>, num_branches |-> 2],
    [num_neurons |-> <<1, 2>>, num_branches |-> 2],
    [num_neurons |-> <<0>>, num_branches |-> 1] }

\* what np.random.normal drew for the hyperplanes
Seeds == {0, 1}

\* the hyperplane of branch b of neuron n of layer l under a seed: one of
\* (1, 1, ..), (1, -1, ..), (-1, 1, ..), (-1, -1, ..)
HyperplaneRow(seed, l, n, b) ==
  LET i == (seed + 2 * (l - 1) + (n - 1) + 3 * (b - 1)) % 4 IN
  Vec([k \in 1..(InputDim + 1) |->
     IF k = 1 THEN (IF i < 2 THEN One ELSE -One)
     ELSE IF (i + k) % 2 = 0 THEN One ELSE -One])

\* num_inputs = np.hstack([input_dim + 1, num_neurons[:-1] + 1])
NumInputs(num_neurons, l) ==
  IF l = 1 THEN InputDim + 1 ELSE num_neurons[l - 1] + 1

\* weights_ = [np.zeros((num_neuron, num_branches, num_input)) ...]
InitialWeights(arch) ==
  Vec([l \in 1..Len(arch.num_neurons) |->
     Vec([n \in 1..arch.num_neurons[l] |->
        Vec([b \in 1..arch.num_branches |->
           Vec([k \in 1..NumInputs(arch.num_neurons, l) |-> Zero])])])])

\* hyperplanes_ = [np.random.normal(0, 1, size=(num_neuron, num_branches,
\* input_dim + 1)) ...]; the rescaling that follows divides a neuron's rows
\* by a positive norm and changes no sign of a dot product
InitialHyperplanes(arch, seed) ==
  Vec([l \in 1..Len(arch.num_neurons) |->
     Vec([n \in 1..arch.num_neurons[l] |->
        Vec([b \in 1..arch.num_branches |-> HyperplaneRow(seed, l, n, b)])])])

NoStep == Raised(<<>>, "none", <<>>)
NoCall ==
  [fn |-> "none", inputs |-> <<>>, target |-> None, update |-> FALSE,
   learning_rate |-> Zero, epsilon |-> Zero, w_pre |-> <<>>, step |-> NoStep]
NoPass ==
  [called |-> FALSE, update |-> FALSE, status |-> "none", w_pre |-> <<>>,
   mean_loss |-> None, outputs |-> <<>>]

Init ==
  /\ do_classification \in BOOLEAN
  /\ \E arch \in Architectures, seed \in Seeds :
       /\ weights = InitialWeights(arch)
       /\ hyperplanes = InitialHyperplanes(arch, seed)
  /\ last = NoCall
  /\ fp = NoPass
  /\ ncalls = 0

\* ---------------------------------------------------------------- the inputs
InputValues == {-One, 2 * One}
Inputs == [1..InputDim -> InputValues]
Const(v) == Vec([k \in 1..InputDim |-> v])

SquareTargets == {None, Some(Zero), Some(3 * One)}
BernoulliTargets == {None, Some(Zero), Some(One)}
SquareLearningRates == {One \div 10}
BernoulliLearningRates == {4 * One}
Epsilons == {DefaultEpsilon, 10 * DefaultEpsilon}

\* x_train, y_train and x_test, y_test of the regression and of the
\* classification dataset
Train(bernoulli) ==
  << [x |-> Const(2 * One), y |-> IF bernoulli THEN One ELSE 3 * One],
     [x |-> Const(-One), y |-> Zero] >>
Test(bernoulli) ==
  << [x |-> Const(-One), y |-> IF bernoulli THEN One ELSE 3 * One] >>

\* ---------------------------------------------------------------- the actions
\* what is kept of a call: its arguments, the weights before it, its outcome
Call(fn, inputs, target, update, learning_rate, epsilon, w_pre, r) ==
  [fn |-> fn, inputs |-> inputs, target |-> target, update |-> update,
   learning_rate |-> learning_rate, epsilon |-> epsilon, w_pre |-> w_pre,
   step |-> r]

StepSquareLoss ==
  /\ ~do_classification
  /\ ncalls < MaxCalls
  /\ \E inputs \in Inputs, target \in SquareTargets,
        learning_rate \in SquareLearningRates, update \in BOOLEAN :
       last' = Call("step_square_loss", inputs, target, update, learning_rate,
                    Zero, weights,
                    step_square_loss(inputs, weights, hyperplanes,
                                     learning_rate, target, update))
  /\ weights' = last'.step.weights
  /\ fp' = NoPass
  /\ ncalls' = ncalls + 1
  /\ UNCHANGED <<do_classification, hyperplanes>>

StepBernoulli ==
  /\ do_classification
  /\ ncalls < MaxCalls
  /\ \E inputs \in Inputs, target \in BernoulliTargets,
        learning_rate \in BernoulliLearningRates, epsilon \in Epsilons,
        update \in BOOLEAN :
       last' = Call("step_bernoulli", inputs, target, update, learning_rate,
                    epsilon, weights,
                    step_bernoulli(inputs, weights, hyperplanes, learning_rate,
                                   epsilon, target, update))
  /\ weights' = last'.step.weights
  /\ fp' = NoPass
  /\ ncalls' = ncalls + 1
  /\ UNCHANGED <<do_classification, hyperplanes>>

\* what forward_pass leaves: the weights, its last step_fn call, and
\* "return np.mean(losses), np.array(outputs)"
PassEffect(p, update, learning_rate) ==
  /\ weights' = p.weights
  /\ last' = Call(IF do_classification THEN "step_bernoulli"
                  ELSE "step_square_loss",
                  p.call.inputs, p.call.target, update, learning_rate,
                  IF do_classification THEN DefaultEpsilon ELSE Zero,
                  p.call.w_pre, p.call.step)
  /\ fp' = [called |-> TRUE, update |-> update, status |-> p.status,
            w_pre |-> weights,
            mean_loss |-> IF p.status = "ok" THEN Some(Mean(p.losses))
                          ELSE None,
            outputs |-> p.outputs]

\* forward_pass(step, x, y, weights_, hyperplanes_, learning_rate_const,
\* update): the whole pass over a dataset
ForwardPass ==
  /\ ncalls < MaxCalls
  /\ \E data \in {Train(do_classification), Test(do_classification)},
        update \in BOOLEAN,
        learning_rate \in (IF do_classification THEN BernoulliLearningRates
                           ELSE SquareLearningRates) :
       PassEffect(PassLoop(do_classification, data, weights, hyperplanes,
                           learning_rate, update),
                  update, learning_rate)
  /\ ncalls' = ncalls + 1
  /\ UNCHANGED <<do_classification, hyperplanes>>

Next == StepSquareLoss \/ StepBernoulli \/ ForwardPass

Spec == Init /\ [][Next]_vars

\* ------------------------------------------------------------------ claims
Called == last.fn # "none"
Ok == last.step.status = "ok"
Ran == Len(last.step.layers) > 0
Layers == last.step.layers
LastSideInfo == SideInfo(last.inputs)
LayerIds == 1..Len(Layers)
Neurons(l) == 1..Len(last.w_pre[l])
Branches(l, n) == 1..Len(last.w_pre[l][n])

\* the sum over neuron n's own branches of W[n,b,:] where G[n,b] is true
OwnBranchWeights(gate_values, w) ==
  Vec([n \in 1..Len(w) |->
     Vec([m \in 1..Len(w[n][1]) |->
        SumSeq(Vec([b \in 1..Len(w[n]) |->
                  FMul(BoolToFloat(gate_values[n][b]), w[n][b][m])]))])])

\* C1: in every layer of a step, neuron n's effective weights are the sum of
\* its own weights W[n,b,:] over the branches b whose gate G[n,b] is true, and
\* its output is their product with the layer's input; no other neuron's
\* weights contribute.
C1_OwnBranchesOnly ==
  (Called /\ Len(last.w_pre[Len(last.w_pre)]) = 1) =>
    \A l \in LayerIds :
      /\ Layers[l].effective_weights =
           OwnBranchWeights(Layers[l].gate_values, last.w_pre[l])
      /\ \A n \in Neurons(l) :
           LET out == Dot(OwnBranchWeights(Layers[l].gate_values,
                                           last.w_pre[l])[n],
                          Layers[l].h_in)
           IN Layers[l].r_out[n] =
                IF last.fn = "step_square_loss" THEN out
                ELSE Clip(sigmoid(out), last.epsilon,
                          FSub(One, last.epsilon))

\* C2 as stated: the gate G[n,b] is true exactly when H[n,b,:] . side_info
\* is >= 0, a dot product of exactly zero firing the gate.
C2_GateTiesToOne ==
  \A l \in LayerIds : \A n \in Neurons(l) : \A b \in Branches(l, n) :
    Layers[l].gate_values[n][b] =
      FLe(Zero, Dot(hyperplanes[l][n][b], LastSideInfo))

\* C2 as amended: the gate G[n,b] is true exactly when H[n,b,:] . side_info
\* is > 0, a dot product of exactly zero leaving the gate closed; with
\* hyperplane [1, 1] and side_info [1, x] the gate fires exactly for x > -1.
C2_GateStrict ==
  \A l \in LayerIds : \A n \in Neurons(l) : \A b \in Branches(l, n) :
    /\ Layers[l].gate_values[n][b] =
         FGt(Dot(hyperplanes[l][n][b], LastSideInfo), Zero)
    /\ (hyperplanes[l][n][b] = <<One, One>> /\ Len(last.inputs) = 1) =>
         (Layers[l].gate_values[n][b] <=> last.inputs[1] > -One)

\* a call that computed a gate from a dot product of exactly zero
C2_Witness ==
  \E l \in LayerIds : \E n \in Neurons(l) : \E b \in Branches(l, n) :
    /\ Dot(hyperplanes[l][n][b], LastSideInfo) = Zero
    /\ hyperplanes[l][n][b] = <<One, One>>
    /\ last.inputs = <<-One>>
    /\ ~Layers[l].gate_values[n][b]

\* C3: after a call with update=true, every weight row W[n,b,:] whose gate
\* G[n,b] was false for the example equals its value before the call (a call
\* that raised before any layer ran changed no weight at all).
C3_UpdateLocality ==
  (Called /\ last.update) =>
    /\ \A l \in LayerIds : \A n \in Neurons(l) : \A b \in Branches(l, n) :
         ~Layers[l].gate_values[n][b] =>
           weights[l][n][b] = last.w_pre[l][n][b]
    /\ ~Ran => weights = last.w_pre

\* an updating call in which one neuron had a branch that fired, and was
\* rewritten, beside a branch that did not fire
C3_Witness ==
  /\ Called /\ last.update /\ Ok
  /\ \E l \in LayerIds : \E n \in Neurons(l) :
       \E b1 \in Branches(l, n), b2 \in Branches(l, n) :
         /\ Layers[l].gate_values[n][b1]
         /\ ~Layers[l].gate_values[n][b2]
         /\ weights[l][n][b1] # last.w_pre[l][n][b1]

\* C4: a call with update=false leaves every weight unchanged (so does a
\* whole forward_pass with update=false), and no call changes a hyperplane.
C4_NoUpdateNoChange ==
  [][ /\ hyperplanes' = hyperplanes
      /\ ~last'.update => weights' = weights ]_vars

\* an evaluation pass (update=false) run on weights that training has moved
C4_Witness ==
  /\ fp.called /\ ~fp.update /\ fp.status = "ok"
  /\ \E l \in 1..Len(weights) : \E n \in 1..Len(weights[l]) :
       \E b \in 1..Len(weights[l][n]) : \E k \in 1..Len(weights[l][n][b]) :
         weights[l][n][b][k] # Zero

\* C5: a call on a layer stack whose last layer does not have exactly one
\* neuron aborts instead of returning a prediction and a loss.
C5_TerminalNotOneAborts ==
  (Called /\ Len(last.w_pre[Len(last.w_pre)]) # 1) => ~Ok

\* C6: a single-layer square-loss call with update=true returns the
\* prediction and the loss (target - prediction)^2 / 2 of the weights before
\* the call and leaves W[n,b,:] - learning_rate * G[n,b] * (output[n] -
\* target) * [1, x]; with hyperplane [1, 1], W = [0, 0], x = 2, target = 3,
\* learning_rate = 0.1: gate true, output 0, loss 4.5, weights [0.3, 0.6].
C6_Scenario ==
  /\ last.fn = "step_square_loss" /\ last.update /\ Ok
  /\ hyperplanes = << << << << One, One >> >> >> >>
  /\ last.w_pre = << << << << Zero, Zero >> >> >> >>
  /\ last.inputs = << 2 * One >>
  /\ last.target = Some(3 * One)
  /\ last.learning_rate = One \div 10

C6_SingleLayerSquareUpdate ==
  /\ (last.fn = "step_square_loss" /\ last.update /\ Ok
        /\ Len(last.w_pre) = 1 /\ Len(last.w_pre[1]) = 1) =>
       LET x1 == <<One>> \o last.inputs
           G == Layers[1].gate_values
           out == Layers[1].r_out
       IN /\ last.step.prediction = Some(out[1])
          /\ out[1] = Dot(OwnBranchWeights(G, last.w_pre[1])[1], x1)
          /\ last.step.loss =
               Some(FDiv(FMul(FSub(last.target[1], out[1]),
                              FSub(last.target[1], out[1])), 2 * One))
          /\ \A n \in Neurons(1) : \A b \in Branches(1, n) :
               \A k \in 1..Len(x1) :
                 weights[1][n][b][k] =
                   FSub(last.w_pre[1][n][b][k],
                        FMul(FMul(last.learning_rate, BoolToFloat(G[n][b])),
                             FMul(FSub(out[n], last.target[1]), x1[k])))
  /\ C6_Scenario =>
       /\ Layers[1].gate_values = << << TRUE >> >>
       /\ last.step.prediction = Some(Zero)
       /\ 10 * last.step.loss[1] = 45 * One
       /\ 10 * weights[1][1][1][1] = 3 * One
       /\ 10 * weights[1][1][1][2] = 6 * One

\* C7: in step_bernoulli with 0 < epsilon < 0.5, every layer's output, and
\* so the prediction, lies in [epsilon, 1 - epsilon], and every value given
\* to inverse_sigmoid lies strictly between 0 and 1, so that every logit is
\* finite.
C7_BernoulliBounded ==
  (last.fn = "step_bernoulli" /\ Zero < last.epsilon /\ 2 * last.epsilon < One) =>
    /\ \A l \in LayerIds :
         /\ \A n \in Neurons(l) :
              /\ FLe(last.epsilon, Layers[l].r_out[n])
              /\ FLe(Layers[l].r_out[n], FSub(One, last.epsilon))
         /\ \A k \in 1..Len(Layers[l].r_in) :
              /\ FLt(Zero, Layers[l].r_in[k])
              /\ FLt(Layers[l].r_in[k], One)
              /\ IsFinite(Layers[l].h_in[k])
    /\ Ok => /\ FLe(last.epsilon, last.step.prediction[1])
             /\ FLe(last.step.prediction[1], FSub(One, last.epsilon))

\* a Bernoulli call in which a neuron's sigmoid came out as exactly 1 (or
\* exactly 0) and only the clip kept the output off it
C7_Witness ==
  /\ last.fn = "step_bernoulli" /\ Ran
  /\ \E l \in LayerIds : \E n \in Neurons(l) :
       LET s == sigmoid(Dot(Layers[l].effective_weights[n], Layers[l].h_in))
       IN /\ s = One \/ s = Zero
          /\ Layers[l].r_out[n] # s

\* the hyperplane tensor h with the row of branch b of neuron n negated
NegatedRow(h, n, b) ==
  [h EXCEPT ![n][b] = Vec([k \in 1..Len(h[n][b]) |-> FNeg(h[n][b][k])])]

\* C8 as stated: the gate pattern is boolean, and negating one hyperplane
\* row H[n,b,:] flips G[n,b] and leaves every other gate bit unchanged, also
\* when H[n,b,:] . side_info is exactly zero.
C8_NegationFlips ==
  \A l \in LayerIds : \A n \in Neurons(l) : \A b \in Branches(l, n) :
    GateValues(NegatedRow(hyperplanes[l], n, b), LastSideInfo) =
      [Layers[l].gate_values EXCEPT ![n][b] = ~Layers[l].gate_values[n][b]]

\* C8 as amended: the gate pattern is boolean; negating one hyperplane row
\* H[n,b,:] leaves every other gate bit unchanged and flips G[n,b] when
\* H[n,b,:] . side_info is not zero; when it is exactly zero the gate is
\* closed before and after the negation.
C8_NegationFlipsOffZero ==
  \A l \in LayerIds : \A n \in Neurons(l) : \A b \in Branches(l, n) :
    LET negated == GateValues(NegatedRow(hyperplanes[l], n, b), LastSideInfo)
        gate == Layers[l].gate_values
    IN /\ gate[n][b] \in BOOLEAN
       /\ IF Dot(hyperplanes[l][n][b], LastSideInfo) # Zero
          THEN negated = [gate EXCEPT ![n][b] = ~gate[n][b]]
          ELSE /\ negated = gate
               /\ ~gate[n][b]
               /\ ~negated[n][b]

\* a call with a row whose dot product is zero beside a row whose is not
C8_Witness ==
  \E l \in LayerIds : \E n \in Neurons(l) :
    \E b1 \in Branches(l, n), b2 \in Branches(l, n) :
      /\ Dot(hyperplanes[l][n][b1], LastSideInfo) = Zero
      /\ Dot(hyperplanes[l][n][b2], LastSideInfo) # Zero

\* C9: a call with update=false and no target, on a layer stack that ends in
\* one neuron, completes and returns the prediction.
C9_NoTargetNeeded ==
  (Called /\ ~last.update /\ last.target = None
     /\ Len(last.w_pre[Len(last.w_pre)]) = 1) =>
    (Ok /\ last.step.prediction # None)

\* C10: in step_bernoulli with update=true, a neuron whose clipped output is
\* exactly epsilon or exactly 1 - epsilon keeps all its weights W[n,:,:],
\* whatever its gates and the target.
C10_SaturatedNeuronKeepsWeights ==
  (last.fn = "step_bernoulli" /\ last.update) =>
    \A l \in LayerIds : \A n \in Neurons(l) :
      (Layers[l].r_out[n] = last.epsilon
         \/ Layers[l].r_out[n] = FSub(One, last.epsilon)) =>
        weights[l][n] = last.w_pre[l][n]

\* an updating Bernoulli call with a neuron at the clip boundary, a branch of
\* it fired, its output off the target and a nonzero input: only the
\* zeroed gradient keeps its weights
C10_Witness ==
  /\ last.fn = "step_bernoulli" /\ last.update /\ Ok
  /\ \E l \in LayerIds : \E n \in Neurons(l) : \E b \in Branches(l, n) :
       /\ Layers[l].r_out[n] = last.epsilon
            \/ Layers[l].r_out[n] = FSub(One, last.epsilon)
       /\ Layers[l].gate_values[n][b]
       /\ Layers[l].r_out[n] # last.target[1]
       /\ \E k \in 1..Len(Layers[l].h_in) : Layers[l].h_in[k] # Zero

====
